---- MODULE Spec2Model ----
(***************************************************************************)
(* Model of pshark's main.py: the single-file conversion task              *)
(* generate_data_from_pcap and the orchestrator PcapAsterix.__init__.       *)
(*                                                                         *)
(* A text (Python str) is a sequence of tokens.  A character that the      *)
(* code examines in a text (';', line break and blank in decoder output,   *)
(* '/' and '.' in a path, ';' and '"' in a written field) is always a      *)
(* token of its own; any other token ("SAC", "pcap", "1") stands for a run *)
(* of characters the code passes through unexamined.                       *)
(***************************************************************************)
EXTENDS Integers, Sequences, FiniteSets, TLC

(***************************************************************************)
(* Bounds of the model.                                                    *)
(***************************************************************************)
\* buffer_size of the Writer, scaled down from the program's 10000 so that
\* row counts below, at, above and at multiples of the threshold are explored.
buffer_size == 2
\* largest number of lines the decoder prints in single-file mode
MaxLines == 4
\* largest number of (Key, Value) entries configured for a category
MaxFields == 2
\* largest number of entries in the directory listing
MaxFiles == 2
\* largest number of processing units reported by os.cpu_count()
MaxCpu == 4

(***************************************************************************)
(* Python str helpers.                                                     *)
(***************************************************************************)
WS == {" ", "\n", "\r", "\t"}

RECURSIVE LStrip(_)
LStrip(s) == IF s # <<>> /\ Head(s) \in WS THEN LStrip(Tail(s)) ELSE s

RECURSIVE RStrip(_)
RStrip(s) ==
    IF s # <<>> /\ s[Len(s)] \in WS THEN RStrip(SubSeq(s, 1, Len(s) - 1)) ELSE s

\* the text left as it is
StripNothing(s) == s

\* str.strip()
Strip(s) == RStrip(LStrip(s))

\* str.split(sep, 1): the text is cut at the first separator only
SplitOnce(s, sep) ==
    IF \A i \in 1..Len(s) : s[i] # sep
    THEN <<s>>
    ELSE LET i == CHOOSE k \in 1..Len(s) :
                      s[k] = sep /\ \A j \in 1..(k - 1) : s[j] # sep
         IN <<SubSeq(s, 1, i - 1), SubSeq(s, i + 1, Len(s))>>

\* str.split(sep): always at least one piece, empty pieces are kept
RECURSIVE Split(_, _)
Split(s, sep) ==
    IF \A i \in 1..Len(s) : s[i] # sep
    THEN <<s>>
    ELSE LET i == CHOOSE k \in 1..Len(s) :
                      s[k] = sep /\ \A j \in 1..(k - 1) : s[j] # sep
         IN <<SubSeq(s, 1, i - 1)>> \o Split(SubSeq(s, i + 1, Len(s)), sep)

\* str.splitlines(): like split on the line break, but a final line break
\* (and the empty string) starts no further line.  The decoder's standard
\* output is read in text mode, so "\n" is the only line break it holds.
SplitLines(s) ==
    LET p == Split(s, "\n")
    IN IF p[Len(p)] = <<>> THEN SubSeq(p, 1, Len(p) - 1) ELSE p

RECURSIVE Join(_, _)
Join(parts, sep) ==
    IF parts = <<>> THEN <<>>
    ELSE IF Len(parts) = 1 THEN parts[1]
    ELSE parts[1] \o <<sep>> \o Join(Tail(parts), sep)

(***************************************************************************)
(* pathlib: Path(filename).name and Path(filename).stem (POSIX flavour).   *)
(***************************************************************************)
RECURSIVE DropUnnamed(_)
DropUnnamed(parts) ==
    IF parts = <<>> THEN <<>>
    ELSE IF Head(parts) = <<>> \/ Head(parts) = <<".">>
         THEN DropUnnamed(Tail(parts))
         ELSE <<Head(parts)>> \o DropUnnamed(Tail(parts))

PathName(filename) ==
    LET parts == DropUnnamed(Split(filename, "/"))
    IN IF parts = <<>> THEN <<>> ELSE parts[Len(parts)]

PathStem(filename) ==
    LET name == PathName(filename)
        dots == {i \in 1..Len(name) : name[i] = "."}
        i    == IF dots = {} THEN 0 ELSE CHOOSE k \in dots : \A j \in dots : j <= k
    IN IF 1 < i /\ i < Len(name) THEN SubSeq(name, 1, i - 1) ELSE name

(***************************************************************************)
(* csv.writer(f, delimiter=";", quoting=csv.QUOTE_MINIMAL)                 *)
(***************************************************************************)
RECURSIVE DoubleQuotes(_)
DoubleQuotes(field) ==
    IF field = <<>> THEN <<>>
    ELSE (IF Head(field) = "\"" THEN <<"\"", "\"">> ELSE <<Head(field)>>)
         \o DoubleQuotes(Tail(field))

CsvField(field, alone) ==
    IF (\E i \in 1..Len(field) : field[i] \in {";", "\"", "\n", "\r"})
       \/ (alone /\ field = <<>>)
    THEN <<"\"">> \o DoubleQuotes(field) \o <<"\"">>
    ELSE field

\* writer.writerow(row): the text line the row becomes in the file
writerow(row) ==
    Join([i \in 1..Len(row) |-> CsvField(row[i], Len(row) = 1)], ";") \o <<"\r\n">>

\* the lines writer.writerows(rows) appends
writerows(rows) == [i \in 1..Len(rows) |-> writerow(rows[i])]

(***************************************************************************)
(* collections: the dict comprehension of line 18.                         *)
(***************************************************************************)
\* d[k] = v on an insertion-ordered dict kept as a sequence of <<key, value>>:
\* an existing key keeps its position and takes the new value
DictSet(d, k, v) ==
    IF \E i \in 1..Len(d) : d[i][1] = k
    THEN [i \in 1..Len(d) |-> IF d[i][1] = k THEN <<k, v>> ELSE d[i]]
    ELSE Append(d, <<k, v>>)

RECURSIVE DictFromItems(_, _)
DictFromItems(d, items) ==
    IF items = <<>> THEN d
    ELSE DictFromItems(DictSet(d, Head(items).Key, Head(items).Value), Tail(items))

DictKeys(d) == [i \in 1..Len(d) |-> d[i][1]]
DictValues(d) == [i \in 1..Len(d) |-> d[i][2]]

(***************************************************************************)
(* Inputs: command line, config.toml, directory content, decoder outcomes. *)
(***************************************************************************)
\* a category of the -c choices that config.toml may configure, and one it
\* never configures
CategoryChoices == {<<"48">>, <<"62">>}

Items == {[Key |-> <<"SAC">>, Value |-> <<"010.SAC">>],
          [Key |-> <<"SIC">>, Value |-> <<"010.SIC">>],
          [Key |-> <<"SAC">>, Value |-> <<"010.SIC">>]}

Schemas == UNION {[1..n -> Items] : n \in 0..MaxFields}

TsharkSection == [path |-> <<"tshark">>,
                  parameters |-> << <<"-T">>, <<"fields">>, <<"-E">>, <<"separator=;">> >>]

\* config.toml as loaded by from_toml: category "48" configured with some
\* (possibly empty) list, or no category configured at all
Configs ==
    {[categories |-> (<<"48">> :> s), tshark |-> TsharkSection] : s \in Schemas}
    \cup {[categories |-> <<>>, tshark |-> TsharkSection]}

\* the configurations explored in directory mode: no category configured,
\* "48" configured with an empty list, "48" configured with two fields
DirConfigs ==
    {c \in Configs :
        \/ DOMAIN c.categories = {}
        \/ c.categories[<<"48">>] = <<>>
        \/ c.categories[<<"48">>] = <<[Key |-> <<"SAC">>, Value |-> <<"010.SAC">>],
                                       [Key |-> <<"SIC">>, Value |-> <<"010.SIC">>]>>}

FileArgs == { <<"a", ".", "pcap">>, <<"d", "/", "a", ".", "pcap">> }

DirArg == <<"d">>
DirEntries == { <<"a", ".", "pcap">>, <<"a", ".", "pcapng">>, <<"b", ".", "pcap">> }

\* what glob(f"{directory}/*") can return: distinct paths, in any order
Listings ==
    {l \in UNION {[1..n -> {DirArg \o <<"/">> \o e : e \in DirEntries}] : n \in 0..MaxFiles} :
        \A i, j \in 1..Len(l) : i # j => l[i] # l[j]}

\* default of -j (line 93)
DefaultJobs(cpus) == cpus \div 2
JobsArgs == {DefaultJobs(c) : c \in 1..MaxCpu}

DecoderLines == { <<>>, <<"1", ";", "2">> }
Stdouts ==
    {Join(ls, "\n") : ls \in UNION {[1..n -> DecoderLines] : n \in 0..MaxLines}}
    \cup { <<" ", "\n">>, <<"\n", " ", "1", "\n", "\n">>, <<"1", ";", "2", ";", "3">> }
Stderrs == { <<>>, <<"tshark: bad file">>, <<" ", "tshark: bad file", "\n">> }

Failed(e) == [returncode |-> 1, stdout |-> <<>>, stderr |-> e]
Exited(s) == [returncode |-> 0, stdout |-> s, stderr |-> <<>>]

FileOutcomes == {Failed(e) : e \in Stderrs} \cup {Exited(s) : s \in Stdouts}
DirOutcomes == {Failed(<<"tshark: bad file", "\n">>), Exited(<<"\n">>),
                Exited(<<"1", ";", "2">>),
                Exited(<<"1", "\n", "2", "\n", "3">>)}

\* a reading of time.time() - start, formatted with :.2f
Elapsed == "<elapsed>"

\* content left by an earlier run in a file of the output's name
OldContent == << <<"old1", "\r\n">>, <<"old2", "\r\n">>, <<"old3", "\r\n">>,
                 <<"old4", "\r\n">>, <<"old5", "\r\n">>, <<"old6", "\r\n">>,
                 <<"old7", "\r\n">> >>

OutName(filename) == PathStem(filename) \o <<".csv">>

(***************************************************************************)
(* State.                                                                  *)
(***************************************************************************)
VARIABLES
    args,         \* parsed command line: file, directory, category, timestamp, jobs
    config,       \* self.config
    listing,      \* what glob returns for the directory
    mainpc,       \* position of PcapAsterix.__init__
    printed,      \* lines printed by __init__, in order
    task,         \* the calls of generate_data_from_pcap: arguments, locals, position
    fs,           \* files of the working directory: name -> lines
    invocations,  \* decoder processes run so far: <<task, command>>
    queue,        \* submitted jobs no worker has taken yet (FIFO)
    worker,       \* worker process -> the task it runs, 0 when idle
    future,       \* per submitted job: "pending", "running", "finished"
    reported,     \* futures whose result __init__ has printed, in order
    earlier       \* which run of the program this is, and what the run before
                  \* it found, was given by its decoder and left in the files

vars == <<args, config, listing, mainpc, printed, task, fs, invocations,
          queue, worker, future, reported, earlier>>

NoText == <<>>

\* no decoder process has been run
NoProcess == [returncode |-> -1, stdout |-> <<>>, stderr |-> <<>>]

\* a call of generate_data_from_pcap that has not started
NewTask(job) ==
    [pc |-> "Pending", filename |-> job[1], category |-> job[2],
     timestamp |-> job[3],
     fields_table |-> <<>>, field_keys |-> <<>>, tshark_cmd |-> <<>>,
     raw_data |-> NoText, outfile |-> NoText, lines |-> <<>>, i |-> 0,
     buffer |-> <<>>, fpos |-> 0, process |-> NoProcess,
     result |-> NoText, exc |-> ""]

Job(f) == <<f, args.category, args.timestamp>>

InitCommon ==
    /\ mainpc = "start"
    /\ printed = <<>>
    /\ task = <<>>
    /\ invocations = <<>>
    /\ queue = <<>>
    /\ worker = <<>>
    /\ future = <<>>
    /\ reported = <<>>
    /\ earlier = [run |-> 1, before |-> fs, process |-> NoProcess, after |-> <<>>]

\* python main.py -f FILE -c CAT [-ts]
InitFile ==
    /\ args \in [file : FileArgs, directory : {NoText}, category : CategoryChoices,
                 timestamp : BOOLEAN, jobs : {DefaultJobs(MaxCpu)}]
    /\ config \in Configs
    /\ listing = <<>>
    /\ fs \in {<<>>, (OutName(args.file) :> OldContent)}
    /\ InitCommon

\* python main.py -d DIR -c CAT [-ts] [-j N], and the call with neither -f nor -d
InitDir ==
    /\ args \in [file : {NoText}, directory : {NoText, DirArg}, category : {<<"48">>},
                 timestamp : {TRUE}, jobs : JobsArgs]
    /\ config \in DirConfigs
    /\ listing \in (IF args.directory = NoText THEN {<<>>} ELSE Listings)
    /\ fs = <<>>
    /\ InitCommon

Init == InitFile \/ InitDir

(***************************************************************************)
(* generate_data_from_pcap, one action per stage.  Task t takes a step     *)
(* while its caller runs it: __init__ itself in single-file mode, a worker *)
(* process of the pool in directory mode.                                  *)
(***************************************************************************)
Runs(t) ==
    /\ t \in 1..Len(task)
    /\ \/ mainpc = "file_call" /\ t = 1
       \/ \E w \in 1..Len(worker) : worker[w] = t

\* the result strings (lines 20, 46, 50, 74)
TableNotFound(category) == <<"[ERROR]", " Table not found for CAT ">> \o category
DecoderErrorUntrimmed(filename, stderr) ==
    <<"[ERROR]", " ">> \o PathName(filename) \o <<": ">> \o stderr
DecoderError(filename, stderr) ==
    <<"[ERROR]", " ">> \o PathName(filename) \o <<": ">> \o Strip(stderr)
EmptyOutput(filename) == <<"[WARN]", " ">> \o PathName(filename) \o <<": empty output">>
Converted(filename, outfile, elapsed) ==
    <<"[OK]", " ">> \o PathName(filename) \o <<" -> ">> \o outfile
        \o <<" (", elapsed, "s)">>

\* lines 24-35: the decoder command
TsharkCmd(filename, category, timestamp, fields_table) ==
    <<config.tshark.path, <<"-r">>, filename>>
        \o config.tshark.parameters
        \o << <<"-Y">>, <<"asterix.category==">> \o category >>
        \o (IF timestamp THEN << <<"-e">>, <<"frame.time_epoch">> >> ELSE <<>>)
        \o [k \in 1..(2 * Len(fields_table)) |->
               IF k % 2 = 1 THEN <<"-e">> ELSE DictValues(fields_table)[k \div 2]]

\* lines 60-63: the header row
HeaderRow(timestamp, field_keys) ==
    IF timestamp THEN << <<"TIMESTAMP">> >> \o field_keys ELSE field_keys

\* a file object's write at its own position: the file is extended with
\* holes when another open has truncated it below that position
Hole == <<"\\0">>
FileWrite(content, pos, new) ==
    LET padded == content \o [k \in 1..(pos - Len(content)) |-> Hole]
    IN SubSeq(padded, 1, pos) \o new
           \o SubSeq(padded, pos + Len(new) + 1, Len(padded))

\* lines 14-20: look the category up and build fields_table.  For a category
\* that config.toml does not configure, .get returns None and iterating it in
\* the comprehension raises TypeError.
Resolve(t) ==
    /\ Runs(t)
    /\ task[t].pc = "Pending"
    /\ IF task[t].category \notin DOMAIN config.categories
       THEN task' = [task EXCEPT ![t].pc = "Raised", ![t].exc = "TypeError"]
       ELSE LET categories   == config.categories[task[t].category]
                fields_table == DictFromItems(<<>>, categories)
            IN IF fields_table = <<>>
               THEN task' = [task EXCEPT ![t].pc = "Done",
                                ![t].result = TableNotFound(task[t].category)]
               ELSE task' = [task EXCEPT ![t].pc = "Resolved",
                                ![t].fields_table = fields_table]
    /\ UNCHANGED <<earlier, args, config, listing, mainpc, printed, fs, invocations,
                   queue, worker, future, reported>>

\* lines 22-35: field_keys and the decoder command
BuildCommand(t) ==
    /\ Runs(t)
    /\ task[t].pc = "Resolved"
    /\ task' = [task EXCEPT ![t].pc = "Decoding",
                   ![t].field_keys = DictKeys(task[t].fields_table),
                   ![t].tshark_cmd = TsharkCmd(task[t].filename, task[t].category,
                                        task[t].timestamp, task[t].fields_table)]
    /\ UNCHANGED <<earlier, args, config, listing, mainpc, printed, fs, invocations,
                   queue, worker, future, reported>>

\* what the decoder can do; when the program is run again on the same
\* input, the decoder does what it did in the run before
DecoderOutcomes ==
    IF earlier.run > 1 THEN {earlier.process}
    ELSE IF args.file # NoText THEN FileOutcomes ELSE DirOutcomes

\* a decoder that exits with nonzero status is run again
RunDecoderRetry(t) ==
    /\ Runs(t)
    /\ task[t].pc = "Decoding"
    /\ invocations' = Append(invocations, <<t, task[t].tshark_cmd>>)
    /\ \E process \in DecoderOutcomes :
          IF process.returncode # 0
          THEN task' = [task EXCEPT ![t].process = process]
          ELSE LET raw_data == Strip(process.stdout)
               IN IF raw_data = <<>>
                  THEN task' = [task EXCEPT ![t].pc = "Done",
                                   ![t].process = process,
                                   ![t].result = EmptyOutput(task[t].filename)]
                  ELSE task' = [task EXCEPT ![t].pc = "Decoded",
                                   ![t].process = process,
                                   ![t].raw_data = raw_data]
    /\ UNCHANGED <<earlier, args, config, listing, mainpc, printed, fs,
                   queue, worker, future, reported>>

\* lines 37-50: run the decoder once and wait for it to exit
RunDecoder(t) ==
    /\ Runs(t)
    /\ task[t].pc = "Decoding"
    /\ invocations' = Append(invocations, <<t, task[t].tshark_cmd>>)
    /\ \E process \in DecoderOutcomes :
          IF process.returncode # 0
          THEN task' = [task EXCEPT ![t].pc = "Done",
                           ![t].process = process,
                           ![t].result = DecoderError(task[t].filename, process.stderr)]
          ELSE LET raw_data == Strip(process.stdout)
               IN IF raw_data = <<>>
                  THEN task' = [task EXCEPT ![t].pc = "Done",
                                   ![t].process = process,
                                   ![t].result = EmptyOutput(task[t].filename)]
                  ELSE task' = [task EXCEPT ![t].pc = "Decoded",
                                   ![t].process = process,
                                   ![t].raw_data = raw_data]
    /\ UNCHANGED <<earlier, args, config, listing, mainpc, printed, fs,
                   queue, worker, future, reported>>

\* the output file is opened for appending: what it held is kept and the
\* header row goes after it
OpenForAppend(t) ==
    /\ Runs(t)
    /\ task[t].pc = "Decoded"
    /\ LET outfile == OutName(task[t].filename)
           header  == writerow(HeaderRow(task[t].timestamp, task[t].field_keys))
           old     == IF outfile \in DOMAIN fs THEN fs[outfile] ELSE <<>>
       IN /\ fs' = (outfile :> Append(old, header)) @@ fs
          /\ task' = [task EXCEPT ![t].pc = "Writing",
                         ![t].outfile = outfile,
                         ![t].buffer = <<>>,
                         ![t].fpos = Len(old) + 1,
                         ![t].lines = SplitLines(task[t].raw_data),
                         ![t].i = 0]
    /\ UNCHANGED <<earlier, args, config, listing, mainpc, printed, invocations,
                   queue, worker, future, reported>>

\* lines 52-65: open the output file for writing (truncating it), write the
\* header row, and split the output into the lines the loop goes through
OpenAndWriteHeader(t) ==
    /\ Runs(t)
    /\ task[t].pc = "Decoded"
    /\ LET outfile == OutName(task[t].filename)
           header  == writerow(HeaderRow(task[t].timestamp, task[t].field_keys))
       IN /\ fs' = (outfile :> <<header>>) @@ fs
          /\ task' = [task EXCEPT ![t].pc = "Writing",
                         ![t].outfile = outfile,
                         ![t].buffer = <<>>,
                         ![t].fpos = 1,
                         ![t].lines = SplitLines(task[t].raw_data),
                         ![t].i = 0]
    /\ UNCHANGED <<earlier, args, config, listing, mainpc, printed, invocations,
                   queue, worker, future, reported>>

\* one iteration of the loop that flushes only above the threshold
WriteLineLate(t) ==
    /\ Runs(t)
    /\ task[t].pc = "Writing"
    /\ task[t].i < Len(task[t].lines)
    /\ LET line   == task[t].lines[task[t].i + 1]
           buffer == Append(task[t].buffer, Split(line, ";"))
       IN IF Len(buffer) > buffer_size
          THEN /\ fs' = [fs EXCEPT ![task[t].outfile] =
                            FileWrite(@, task[t].fpos, writerows(buffer))]
               /\ task' = [task EXCEPT ![t].i = @ + 1,
                              ![t].buffer = <<>>,
                              ![t].fpos = @ + Len(buffer)]
          ELSE /\ task' = [task EXCEPT ![t].i = @ + 1, ![t].buffer = buffer]
               /\ UNCHANGED fs
    /\ UNCHANGED <<earlier, args, config, listing, mainpc, printed, invocations,
                   queue, worker, future, reported>>

\* lines 65-69: one iteration of the loop
WriteLine(t) ==
    /\ Runs(t)
    /\ task[t].pc = "Writing"
    /\ task[t].i < Len(task[t].lines)
    /\ LET line   == task[t].lines[task[t].i + 1]
           buffer == Append(task[t].buffer, Split(line, ";"))
       IN IF Len(buffer) >= buffer_size
          THEN /\ fs' = [fs EXCEPT ![task[t].outfile] =
                            FileWrite(@, task[t].fpos, writerows(buffer))]
               /\ task' = [task EXCEPT ![t].i = @ + 1,
                              ![t].buffer = <<>>,
                              ![t].fpos = @ + Len(buffer)]
          ELSE /\ task' = [task EXCEPT ![t].i = @ + 1, ![t].buffer = buffer]
               /\ UNCHANGED fs
    /\ UNCHANGED <<earlier, args, config, listing, mainpc, printed, invocations,
                   queue, worker, future, reported>>

\* the loop is left and the file closed without writing what the buffer holds
FinalFlushSkipped(t) ==
    /\ Runs(t)
    /\ task[t].pc = "Writing"
    /\ task[t].i = Len(task[t].lines)
    /\ task' = [task EXCEPT ![t].pc = "Written"]
    /\ UNCHANGED <<earlier, args, config, listing, mainpc, printed, fs, invocations,
                   queue, worker, future, reported>>

\* lines 71-72: after the last line, write what the buffer still holds and
\* close the file
FinalFlush(t) ==
    /\ Runs(t)
    /\ task[t].pc = "Writing"
    /\ task[t].i = Len(task[t].lines)
    /\ IF task[t].buffer # <<>>
       THEN /\ fs' = [fs EXCEPT ![task[t].outfile] =
                         FileWrite(@, task[t].fpos, writerows(task[t].buffer))]
            /\ task' = [task EXCEPT ![t].pc = "Written",
                           ![t].fpos = @ + Len(task[t].buffer)]
       ELSE /\ task' = [task EXCEPT ![t].pc = "Written"]
            /\ UNCHANGED fs
    /\ UNCHANGED <<earlier, args, config, listing, mainpc, printed, invocations,
                   queue, worker, future, reported>>

\* line 74
ReturnOk(t) ==
    /\ Runs(t)
    /\ task[t].pc = "Written"
    /\ task' = [task EXCEPT ![t].pc = "Done",
                   ![t].result = Converted(task[t].filename, task[t].outfile, Elapsed)]
    /\ UNCHANGED <<earlier, args, config, listing, mainpc, printed, fs, invocations,
                   queue, worker, future, reported>>

(***************************************************************************)
(* PcapAsterix.__init__                                                    *)
(***************************************************************************)
Terminal(t) == task[t].pc \in {"Done", "Raised"}

UseFileOrDir == <<"Use -f ou -d">>
NoPcapIn(directory) == <<"Nenhum PCAP em ">> \o directory
Processing == <<"Processando">>
Finished(elapsed) == <<"Finalizado em ", elapsed, "s">>

\* lines 97-106: dispatch on the arguments; with -f the task is called here
ParseArgs ==
    /\ mainpc = "start"
    /\ IF args.file = NoText /\ args.directory = NoText
       THEN /\ printed' = Append(printed, UseFileOrDir)
            /\ mainpc' = "done"
            /\ UNCHANGED task
       ELSE IF args.file # NoText
       THEN /\ task' = <<NewTask(Job(args.file))>>
            /\ mainpc' = "file_call"
            /\ UNCHANGED printed
       ELSE /\ mainpc' = "glob"
            /\ UNCHANGED <<printed, task>>
    /\ UNCHANGED <<earlier, args, config, listing, fs, invocations, queue, worker,
                   future, reported>>

\* lines 104-108: the call returns and its result is printed, or the
\* exception it raised leaves __init__
FileCallEnds ==
    /\ mainpc = "file_call"
    /\ Terminal(1)
    /\ IF task[1].pc = "Raised"
       THEN /\ mainpc' = "raised"
            /\ UNCHANGED printed
       ELSE /\ printed' = Append(printed, task[1].result)
            /\ mainpc' = "done"
    /\ UNCHANGED <<earlier, args, config, listing, task, fs, invocations, queue, worker,
                   future, reported>>

\* the listing is taken as it is, without the test for an empty one
GlobUnchecked ==
    /\ mainpc = "glob"
    /\ printed' = Append(printed, Processing)
    /\ task' = [j \in 1..Len(listing) |-> NewTask(Job(listing[j]))]
    /\ mainpc' = "pool"
    /\ UNCHANGED <<earlier, args, config, listing, fs, invocations, queue, worker,
                   future, reported>>

\* lines 136-137, a second time: the program is run again with the same
\* command line, configuration and input file, on the files the first run left
Rerun ==
    /\ args.file # NoText
    /\ mainpc = "done"
    /\ earlier.run = 1
    /\ earlier' = [run |-> 2, before |-> earlier.before,
                   process |-> task[1].process, after |-> fs]
    /\ mainpc' = "start"
    /\ task' = <<>>
    /\ printed' = <<>>
    /\ invocations' = <<>>
    /\ UNCHANGED <<args, config, listing, fs, queue, worker, future, reported>>

\* lines 110-122: list the directory and build one job per entry
Glob ==
    /\ mainpc = "glob"
    /\ IF listing = <<>>
       THEN /\ printed' = Append(printed, NoPcapIn(args.directory))
            /\ mainpc' = "done"
            /\ UNCHANGED task
       ELSE /\ printed' = Append(printed, Processing)
            /\ task' = [j \in 1..Len(listing) |-> NewTask(Job(listing[j]))]
            /\ mainpc' = "pool"
    /\ UNCHANGED <<earlier, args, config, listing, fs, invocations, queue, worker,
                   future, reported>>

\* a pool with one worker more than asked for
CreatePoolOneMore ==
    /\ mainpc = "pool"
    /\ IF args.jobs <= 0
       THEN /\ mainpc' = "raised"
            /\ UNCHANGED worker
       ELSE /\ worker' = [w \in 1..(args.jobs + 1) |-> 0]
            /\ mainpc' = "submit"
    /\ UNCHANGED <<earlier, args, config, listing, printed, task, fs, invocations, queue,
                   future, reported>>

\* line 124: ProcessPoolExecutor(max_workers=args.jobs) raises ValueError
\* unless max_workers is positive
CreatePool ==
    /\ mainpc = "pool"
    /\ IF args.jobs <= 0
       THEN /\ mainpc' = "raised"
            /\ UNCHANGED worker
       ELSE /\ worker' = [w \in 1..args.jobs |-> 0]
            /\ mainpc' = "submit"
    /\ UNCHANGED <<earlier, args, config, listing, printed, task, fs, invocations, queue,
                   future, reported>>

\* line 125: executor.submit of the next job
Submit ==
    /\ mainpc = "submit"
    /\ LET j == Len(future) + 1
       IN /\ future' = Append(future, "pending")
          /\ queue' = Append(queue, j)
          /\ mainpc' = IF j = Len(task) THEN "collect" ELSE "submit"
    /\ UNCHANGED <<earlier, args, config, listing, printed, task, fs, invocations, worker,
                   reported>>

\* an idle worker process takes the oldest queued job
WorkerTake(w) ==
    /\ worker[w] = 0
    /\ queue # <<>>
    /\ worker' = [worker EXCEPT ![w] = Head(queue)]
    /\ future' = [future EXCEPT ![Head(queue)] = "running"]
    /\ queue' = Tail(queue)
    /\ UNCHANGED <<earlier, args, config, listing, mainpc, printed, task, fs, invocations,
                   reported>>

\* the worker's call has returned or raised: its future holds the result or
\* the exception, and the worker is idle again
WorkerDone(w) ==
    /\ worker[w] # 0
    /\ Terminal(worker[w])
    /\ future' = [future EXCEPT ![worker[w]] = "finished"]
    /\ worker' = [worker EXCEPT ![w] = 0]
    /\ UNCHANGED <<earlier, args, config, listing, mainpc, printed, task, fs, invocations,
                   queue, reported>>

\* the futures are taken in the order of submission: the next one is waited
\* for, whichever others have finished
CollectInOrder(t) ==
    /\ mainpc = "collect"
    /\ t = Len(reported) + 1
    /\ future[t] = "finished"
    /\ IF task[t].pc = "Raised"
       THEN /\ mainpc' = "unwind"
            /\ UNCHANGED <<printed, reported>>
       ELSE /\ printed' = Append(printed, task[t].result)
            /\ reported' = Append(reported, t)
            /\ UNCHANGED mainpc
    /\ UNCHANGED <<earlier, args, config, listing, task, fs, invocations, queue, worker,
                   future>>

\* lines 126-127 for the future of job t: as_completed yields it once it has
\* finished; future.result() returns the task's result, which is printed, or
\* re-raises its exception, which leaves the with block
CollectFuture(t) ==
    /\ mainpc = "collect"
    /\ future[t] = "finished"
    /\ \A k \in 1..Len(reported) : reported[k] # t
    /\ IF task[t].pc = "Raised"
       THEN /\ mainpc' = "unwind"
            /\ UNCHANGED <<printed, reported>>
       ELSE /\ printed' = Append(printed, task[t].result)
            /\ reported' = Append(reported, t)
            /\ UNCHANGED mainpc
    /\ UNCHANGED <<earlier, args, config, listing, task, fs, invocations, queue, worker,
                   future>>

\* lines 126-127: one turn of the as_completed loop
Collect == \E t \in 1..Len(future) : CollectFuture(t)

\* lines 126-129: as_completed is exhausted, the pool is shut down and the
\* elapsed time of the batch is printed
Summary ==
    /\ mainpc = "collect"
    /\ Len(reported) = Len(future)
    /\ printed' = Append(printed, Finished(Elapsed))
    /\ mainpc' = "done"
    /\ UNCHANGED <<earlier, args, config, listing, task, fs, invocations, queue, worker,
                   future, reported>>

\* line 124, __exit__ on an exception: shutdown(wait=True) lets every
\* submitted job finish, then the exception leaves __init__
Unwind ==
    /\ mainpc = "unwind"
    /\ \A t \in 1..Len(future) : future[t] = "finished"
    /\ mainpc' = "raised"
    /\ UNCHANGED <<earlier, args, config, listing, printed, task, fs, invocations, queue,
                   worker, future, reported>>

Next ==
    \/ ParseArgs
    \/ FileCallEnds
    \/ Rerun
    \/ Glob
    \/ CreatePool
    \/ Submit
    \/ \E w \in 1..Len(worker) : WorkerTake(w)
    \/ \E w \in 1..Len(worker) : WorkerDone(w)
    \/ Collect
    \/ Summary
    \/ Unwind
    \/ \E t \in 1..Len(task) : Resolve(t)
    \/ \E t \in 1..Len(task) : BuildCommand(t)
    \/ \E t \in 1..Len(task) : RunDecoder(t)
    \/ \E t \in 1..Len(task) : OpenAndWriteHeader(t)
    \/ \E t \in 1..Len(task) : WriteLine(t)
    \/ \E t \in 1..Len(task) : FinalFlush(t)
    \/ \E t \in 1..Len(task) : ReturnOk(t)

Spec == Init /\ [][Next]_vars

(***************************************************************************)
(* Properties.                                                             *)
(***************************************************************************)
Tasks == 1..Len(task)
Tags == {"[OK]", "[WARN]", "[ERROR]"}
Ended(t) == task[t].pc \in {"Done", "Raised"}
Succeeded(t) == task[t].pc = "Done" /\ task[t].result[1] = "[OK]"
DirectoryMode == args.file = NoText /\ args.directory # NoText
MainEnded == mainpc \in {"done", "raised"}

\* the category of the run has no configured fields: it is absent from the
\* categories section, or present with an empty list
CategoryAbsent == args.category \notin DOMAIN config.categories
CategoryEmpty ==
    args.category \in DOMAIN config.categories /\ config.categories[args.category] = <<>>

\* every file that exists holds what an earlier run left in it
NoFileWritten == \A n \in DOMAIN fs : fs[n] = OldContent

\* no other task of the run writes the output file of task t
SoleWriter(t) ==
    \A u \in Tasks : u # t => OutName(task[u].filename) # OutName(task[t].filename)

\* C1: a run of generate_data_from_pcap never ends by an exception: whatever
\* the category, the timestamp flag and the decoder outcome, a task that has
\* ended has returned one result tagged [OK], [WARN] or [ERROR].
C1_TaskEndsWithResult ==
    \A t \in Tasks :
        /\ task[t].pc # "Raised"
        /\ task[t].pc = "Done" => task[t].result # NoText /\ task[t].result[1] \in Tags

\* C2: when the category has no configured fields (absent from the categories
\* section, or present with an empty list), a task that has ended has returned
\* the "Table not found" error, no decoder was run and no file was written.
C2_NoFieldsIsSchemaNotFound ==
    (CategoryAbsent \/ CategoryEmpty) =>
        /\ \A t \in Tasks :
              Ended(t) => /\ task[t].pc = "Done"
                          /\ task[t].result =
                                <<"[ERROR]", " Table not found for CAT ">> \o args.category
        /\ invocations = <<>>
        /\ NoFileWritten

\* C3: once a batch whose jobs were submitted has ended, every job's result
\* has been reported exactly once: as many reports as discovered files, none
\* twice, none missing.
C3_EveryJobReportedOnce ==
    /\ \A j, k \in 1..Len(reported) : j # k => reported[j] # reported[k]
    /\ (DirectoryMode /\ MainEnded /\ future # <<>>) =>
          /\ Len(reported) = Len(listing)
          /\ \A t \in 1..Len(listing) : \E k \in 1..Len(reported) : reported[k] = t

\* C4: a batch over a non-empty listing whose pool has started always
\* completes: __init__ ends by printing the elapsed-time summary, after every
\* task has ended and had its result reported, whatever the tasks' outcomes.
C4_BatchCompletesWithSummary ==
    (DirectoryMode /\ listing # <<>> /\ worker # <<>>) =>
        /\ mainpc # "raised"
        /\ mainpc = "done" =>
              /\ printed[Len(printed)] = <<"Finalizado em ", Elapsed, "s">>
              /\ \A t \in 1..Len(listing) :
                    /\ Ended(t)
                    /\ \E k \in 1..Len(reported) : reported[k] = t

AllBlank(s) == \A i \in 1..Len(s) : s[i] \in WS

\* r is s without its leading and trailing whitespace
IsTrimOf(r, s) ==
    \E a \in 0..Len(s) : \E b \in a..Len(s) :
        /\ r = SubSeq(s, a + 1, b)
        /\ AllBlank(SubSeq(s, 1, a))
        /\ AllBlank(SubSeq(s, b + 1, Len(s)))
        /\ r # <<>> => r[1] \notin WS /\ r[Len(r)] \notin WS

\* n is the last component of the path f
IsBaseNameOf(n, f) ==
    /\ n # <<>>
    /\ \A i \in 1..Len(n) : n[i] # "/"
    /\ \E k \in 0..Len(f) :
          /\ n = SubSeq(f, k + 1, Len(f))
          /\ k > 0 => f[k] = "/"

\* task t has opened no file, and the file of its output name, which no other
\* task writes, is absent or holds what an earlier run left in it
OutputUntouched(t) ==
    /\ task[t].outfile = NoText
    /\ task[t].fpos = 0
    /\ SoleWriter(t) =>
          \/ OutName(task[t].filename) \notin DOMAIN fs
          \/ fs[OutName(task[t].filename)] = OldContent

\* C5: when the decoder exits with nonzero status the task has returned
\* "[ERROR] <base name>: <standard error, trimmed>", has opened no output file
\* and a file of the output's name is as it was.
C5_DecoderFailureIsError ==
    \A t \in Tasks :
        task[t].process.returncode > 0 =>
            /\ task[t].pc = "Done"
            /\ \E k \in 3..Len(task[t].result) :
                  /\ SubSeq(task[t].result, 1, 2) = <<"[ERROR]", " ">>
                  /\ IsBaseNameOf(SubSeq(task[t].result, 3, k - 1), task[t].filename)
                  /\ task[t].result[k] = ": "
                  /\ IsTrimOf(SubSeq(task[t].result, k + 1, Len(task[t].result)),
                              task[t].process.stderr)
            /\ OutputUntouched(t)

\* a decoder failed with whitespace around its diagnostic, on a path with a
\* directory part, while a file of the output's name existed
C5_Witness ==
    \E t \in Tasks :
        /\ task[t].process.returncode > 0
        /\ task[t].pc = "Done"
        /\ Len(task[t].process.stderr) > 1
        /\ task[t].process.stderr[1] \in WS
        /\ \E i \in 1..Len(task[t].filename) : task[t].filename[i] = "/"
        /\ OutName(task[t].filename) \in DOMAIN fs

\* C6: when the decoder exits with status zero and its standard output is
\* empty or only whitespace, the task has returned a [WARN] result, has opened
\* no output file and a file of the output's name is as it was.
C6_BlankOutputIsWarning ==
    \A t \in Tasks :
        (task[t].process.returncode = 0 /\ AllBlank(task[t].process.stdout)) =>
            /\ task[t].pc = "Done"
            /\ task[t].result[1] = "[WARN]"
            /\ OutputUntouched(t)

\* the decoder printed only whitespace while a file of the output's name existed
C6_Witness ==
    \E t \in Tasks :
        /\ task[t].process.returncode = 0
        /\ task[t].process.stdout # <<>>
        /\ AllBlank(task[t].process.stdout)
        /\ task[t].pc = "Done"
        /\ OutName(task[t].filename) \in DOMAIN fs

\* the (Key, Value) list configured for the category of the run
Configured == config.categories[args.category]

\* C7: the header row of a successfully written file is the configured Keys,
\* all of them and in configured order, after TIMESTAMP iff the flag is set.
C7_HeaderIsConfiguredKeys ==
    \A t \in Tasks :
        (Succeeded(t) /\ SoleWriter(t)) =>
            fs[task[t].outfile][1] =
                Join((IF task[t].timestamp THEN << <<"TIMESTAMP">> >> ELSE <<>>)
                        \o [i \in 1..Len(Configured) |-> Configured[i].Key], ";")
                    \o <<"\r\n">>

\* the arguments that follow a -e in a decoder command, in order
Directives(cmd) ==
    LET at == SelectSeq([j \in 1..Len(cmd) |-> j],
                        LAMBDA j : j > 1 /\ cmd[j - 1] = <<"-e">>)
    IN [m \in 1..Len(at) |-> cmd[at[m]]]

\* C8: a decoder command carries one -e directive per configured pair, in
\* configured order, after frame.time_epoch iff the flag is set, and the i-th
\* field directive is a Value configured with the i-th header Key.
C8_DirectivesFollowConfiguredPairs ==
    \A n \in 1..Len(invocations) :
        LET t == invocations[n][1]
            d == Directives(invocations[n][2])
        IN /\ d = (IF task[t].timestamp THEN << <<"frame.time_epoch">> >> ELSE <<>>)
                     \o [i \in 1..Len(Configured) |-> Configured[i].Value]
           /\ \A i \in 1..Len(task[t].field_keys) :
                 \E c \in 1..Len(Configured) :
                     /\ Configured[c].Key = task[t].field_keys[i]
                     /\ Configured[c].Value =
                            d[i + (IF task[t].timestamp THEN 1 ELSE 0)]

\* the non-empty lines of a text
NonEmptyLines(s) == SelectSeq(Split(s, "\n"), LAMBDA l : l # <<>>)

\* C9: a successfully written file holds, after the header, one row per
\* non-empty line of the decoder's (trimmed) output, that line split on ';',
\* and no row for a blank line.
C9_OneRowPerNonEmptyLine ==
    \A t \in Tasks :
        (Succeeded(t) /\ SoleWriter(t)) =>
            LET ls == NonEmptyLines(Strip(task[t].process.stdout))
                f  == fs[task[t].outfile]
            IN /\ Len(f) - 1 = Len(ls)
               /\ \A k \in 1..Len(ls) :
                     f[k + 1] = Join(Split(ls[k], ";"), ";") \o <<"\r\n">>

\* the rows of the first n lines the Writer goes through, as written
RowsOf(t, n) == [k \in 1..n |-> writerow(Split(task[t].lines[k], ";"))]

\* C10: while the Writer loops, the rows in the file followed by the rows in
\* the buffer are the rows of the lines processed so far, in order; once the
\* loop is left and when [OK] is returned, the file holds the header followed
\* by the rows of all lines in received order.
C10_BufferingKeepsRows ==
    \A t \in Tasks :
        SoleWriter(t) =>
            /\ task[t].pc = "Writing" =>
                  /\ Len(fs[task[t].outfile]) >= 1
                  /\ SubSeq(fs[task[t].outfile], 2, Len(fs[task[t].outfile]))
                        \o writerows(task[t].buffer) = RowsOf(t, task[t].i)
            /\ (task[t].pc = "Written" \/ Succeeded(t)) =>
                  /\ task[t].lines = Split(Strip(task[t].process.stdout), "\n")
                  /\ fs[task[t].outfile] =
                        <<writerow(HeaderRow(task[t].timestamp, task[t].field_keys))>>
                            \o RowsOf(t, Len(task[t].lines))

\* a task succeeded after a flush inside the loop and a final flush of a
\* remainder: one row more than the buffer threshold
C10_Witness ==
    \E t \in Tasks :
        /\ Succeeded(t)
        /\ SoleWriter(t)
        /\ Len(task[t].lines) = buffer_size + 1
        /\ Len(fs[task[t].outfile]) = buffer_size + 2

\* C11: in directory mode with an empty listing, __init__ prints the one
\* warning and ends: no job is built or submitted, no pool is created, no
\* decoder is run, no file is written and no summary is printed.
C11_EmptyDirectoryDoesNothing ==
    (DirectoryMode /\ listing = <<>>) =>
        /\ task = <<>>
        /\ worker = <<>>
        /\ queue = <<>>
        /\ future = <<>>
        /\ reported = <<>>
        /\ invocations = <<>>
        /\ fs = <<>>
        /\ mainpc \in {"start", "glob", "done"}
        /\ printed = IF mainpc = "done"
                     THEN << <<"Nenhum PCAP em ">> \o args.directory >>
                     ELSE <<>>

\* __init__ has ended on an empty directory
C11_Witness ==
    /\ DirectoryMode
    /\ listing = <<>>
    /\ mainpc = "done"
    /\ Len(printed) = 1

\* the tasks that worker processes are running
Running == {t \in Tasks : \E w \in 1..Len(worker) : worker[w] = t}
Queued == {queue[k] : k \in 1..Len(queue)}

\* C12 (state part): at most args.jobs tasks run at a time, no task runs on
\* two workers, a job that waits in the queue has not started and waits
\* there once; a task that has started is running or has ended.
C12_PoolInvariant ==
    DirectoryMode =>
        /\ Len(worker) \in {0, args.jobs}
        /\ Cardinality(Running) <= args.jobs
        /\ \A v, w \in 1..Len(worker) : (v # w /\ worker[v] # 0) => worker[v] # worker[w]
        /\ \A j, k \in 1..Len(queue) : j # k => queue[j] # queue[k]
        /\ \A t \in Queued :
              /\ t \notin Running
              /\ task[t].pc = "Pending"
              /\ future[t] = "pending"
        /\ \A t \in Tasks :
              task[t].pc # "Pending" => t \in Running \/ future[t] = "finished"
        /\ \A t \in Running : future[t] = "running"

\* C12 (step part): a worker lets go of its task only when the task has
\* ended, and a task is taken from the queue by an idle worker only.
C12_NoPreemption ==
    \A w \in 1..Len(worker) :
        (Len(worker') = Len(worker) /\ worker'[w] # worker[w]) =>
            \/ worker[w] = 0 /\ queue # <<>> /\ worker'[w] = Head(queue)
            \/ worker[w] # 0 /\ Terminal(worker[w]) /\ worker'[w] = 0

\* C12: the pool runs at most args.jobs tasks at a time, one per worker, each
\* to completion; jobs beyond the pool size wait queued and start once.
C12_BoundedPool == []C12_PoolInvariant /\ [][C12_NoPreemption]_vars

\* the only worker of the pool is in the middle of a task while a job waits
C12_Witness ==
    /\ DirectoryMode
    /\ args.jobs = 1
    /\ queue # <<>>
    /\ \E t \in Running : task[t].pc \notin {"Pending", "Done", "Raised"}

\* C13: the default pool size is at least 1 whatever the number of processing
\* units, so that a batch over a non-empty listing gets its pool.
C13_DefaultPoolHasAWorker ==
    (DirectoryMode /\ listing # <<>> /\ mainpc \notin {"start", "glob", "pool"}) =>
        /\ args.jobs >= 1
        /\ Len(worker) = args.jobs

\* C14: no output file is opened for writing by more than one task of a
\* batch, whatever the distinct paths of the listing.
C14_NoSharedOutputFile ==
    \A t, u \in Tasks :
        (t # u /\ task[t].outfile # NoText /\ task[u].outfile # NoText) =>
            task[t].outfile # task[u].outfile

\* the number of decoder processes task t has run
Calls(t) == Cardinality({n \in 1..Len(invocations) : invocations[n][1] = t})

\* C16: a task runs the decoder at most once: not at all when the category
\* has no configured fields, exactly once by the time it ends otherwise; a
\* nonzero exit or a blank output ends the task with that one run.
C16_DecoderRunAtMostOnce ==
    \A t \in Tasks :
        /\ Calls(t) <= 1
        /\ Ended(t) =>
              Calls(t) = IF CategoryAbsent \/ CategoryEmpty THEN 0 ELSE 1
        /\ (task[t].process.returncode > 0
              \/ (task[t].process.returncode = 0 /\ AllBlank(task[t].process.stdout))) =>
              Ended(t) /\ Calls(t) = 1

\* a task has ended after its one decoder run failed
C16_Witness ==
    \E t \in Tasks :
        /\ Ended(t)
        /\ Calls(t) = 1
        /\ task[t].process.returncode > 0

\* C17 (state part): the buffer never holds more than buffer_size rows, and
\* between two steps of the loop it holds fewer; once the loop is left the
\* task has written the header and one row per line, no more.
C17_BufferInvariant ==
    \A t \in Tasks :
        /\ Len(task[t].buffer) <= buffer_size
        /\ task[t].pc = "Writing" =>
              /\ Len(task[t].buffer) < buffer_size
              /\ task[t].fpos + Len(task[t].buffer) = 1 + task[t].i
        /\ (task[t].pc = "Written" \/ Succeeded(t)) =>
              /\ task[t].fpos = 1 + Len(task[t].lines)
              /\ SoleWriter(t) => Len(fs[task[t].outfile]) = 1 + Len(task[t].lines)

\* C17 (step part): the step in which the buffer reaches buffer_size writes
\* its rows and empties it, any other step of the loop writes nothing, and
\* the step that leaves the loop writes the remainder once.
C17_FlushStep ==
    \A t \in Tasks :
        (task[t].pc = "Writing" /\ task' # task /\ Len(task') = Len(task)) =>
            LET grown == Len(task[t].buffer) + 1
            IN \/ task'[t] = task[t]
               \/ /\ task'[t].pc = "Writing"
                  /\ task'[t].i = task[t].i + 1
                  /\ IF grown >= buffer_size
                     THEN /\ task'[t].buffer = <<>>
                          /\ task'[t].fpos = task[t].fpos + grown
                     ELSE /\ Len(task'[t].buffer) = grown
                          /\ task'[t].fpos = task[t].fpos
               \/ /\ task'[t].pc = "Written"
                  /\ task[t].i = Len(task[t].lines)
                  /\ task'[t].fpos = task[t].fpos + Len(task[t].buffer)

\* C17: the Writer's buffer is bounded by buffer_size, is flushed and emptied
\* in the step in which it reaches buffer_size, and its remainder is flushed
\* once after the last line.
C17_BoundedBuffer == []C17_BufferInvariant /\ [][C17_FlushStep]_vars

\* the buffer has just been flushed at the threshold and more lines follow
C17_Witness ==
    \E t \in Tasks :
        /\ task[t].pc = "Writing"
        /\ task[t].i = buffer_size
        /\ task[t].buffer = <<>>
        /\ task[t].fpos = buffer_size + 1
        /\ task[t].i < Len(task[t].lines)

\* the number of occurrences of token c in text s
Count(s, c) == Cardinality({i \in 1..Len(s) : s[i] = c})

\* the number of fields of a line of the file: one more than the number of
\* separators outside quotes
FieldCount(line) ==
    1 + Cardinality({i \in 1..Len(line) :
                        /\ line[i] = ";"
                        /\ Count(SubSeq(line, 1, i - 1), "\"") % 2 = 0})

\* C19 as stated: every data row of a successfully written file has as many
\* fields as the header row, whatever the line it comes from.
C19_RowsHaveHeaderWidth ==
    \A t \in Tasks :
        (Succeeded(t) /\ SoleWriter(t)) =>
            \A k \in 2..Len(fs[task[t].outfile]) :
                FieldCount(fs[task[t].outfile][k]) = FieldCount(fs[task[t].outfile][1])

\* C19 as amended: the row of a line has one field more than the line has
\* ';', which is the width of the header exactly when the line holds one ';'
\* fewer than the header has columns.
C19_RowWidthFollowsLine ==
    \A t \in Tasks :
        (Succeeded(t) /\ SoleWriter(t)) =>
            /\ Len(fs[task[t].outfile]) = 1 + Len(task[t].lines)
            /\ FieldCount(fs[task[t].outfile][1]) =
                  Len(task[t].field_keys) + (IF task[t].timestamp THEN 1 ELSE 0)
            /\ \A k \in 1..Len(task[t].lines) :
                  LET width == FieldCount(fs[task[t].outfile][k + 1])
                  IN /\ width = Count(task[t].lines[k], ";") + 1
                     /\ (width = FieldCount(fs[task[t].outfile][1])) <=>
                           (Count(task[t].lines[k], ";") + 1 =
                              Len(task[t].field_keys)
                                + (IF task[t].timestamp THEN 1 ELSE 0))

\* a written file holds a row of three fields under a header of one column
C19_Witness ==
    \E t \in Tasks :
        /\ Succeeded(t)
        /\ SoleWriter(t)
        /\ FieldCount(fs[task[t].outfile][1]) = 1
        /\ \E k \in 2..Len(fs[task[t].outfile]) : FieldCount(fs[task[t].outfile][k]) = 3

\* C18: a result is reported only once its task has returned it, and a
\* returned result that is not yet reported can be reported at once, whatever
\* the tasks submitted before it are doing: reporting follows completion,
\* not submission.
C18_ReportedAsCompleted ==
    /\ \A k \in 1..Len(reported) :
          /\ task[reported[k]].pc = "Done"
          /\ future[reported[k]] = "finished"
          /\ printed[Len(printed) - Len(reported) + k
                       - (IF mainpc = "done" THEN 1 ELSE 0)] = task[reported[k]].result
    /\ \A t \in 1..Len(future) :
          (/\ mainpc = "collect"
           /\ future[t] = "finished"
           /\ \A k \in 1..Len(reported) : reported[k] # t) => ENABLED CollectFuture(t)

\* the result of the second job is reported while the first job, submitted
\* before it, is still in the middle of its task
C18_Witness ==
    /\ Len(future) >= 2
    /\ \E k \in 1..Len(reported) : reported[k] = 2
    /\ \A k \in 1..Len(reported) : reported[k] # 1
    /\ task[1].pc \notin {"Pending", "Done", "Raised"}

\* C15: when the single-file task is run again with the same inputs and the
\* same decoder output, the files are after the second run exactly what they
\* were after the first, whatever the output file held before the first run:
\* a written file is the header of the configured keys and the timestamp flag
\* followed by the rows of the decoder's output, and nothing else.
C15_RerunWritesSameFile ==
    (earlier.run = 2 /\ mainpc = "done") =>
        /\ fs = earlier.after
        /\ task[1].process = earlier.process
        /\ Succeeded(1) =>
              fs[task[1].outfile] =
                  <<writerow(HeaderRow(task[1].timestamp,
                                       DictKeys(DictFromItems(<<>>, Configured))))>>
                      \o RowsOf(1, Len(SplitLines(Strip(task[1].process.stdout))))

\* a second run has rewritten an output file that, before the first run, held
\* more lines than the task writes
C15_Witness ==
    /\ earlier.run = 2
    /\ mainpc = "done"
    /\ Succeeded(1)
    /\ OutName(args.file) \in DOMAIN earlier.before
    /\ Len(earlier.before[OutName(args.file)]) > Len(fs[OutName(args.file)])
    /\ Len(fs[OutName(args.file)]) > 2

====
